---- MODULE Spec2Model ----
(***************************************************************************)
(* Paper-trading engine of MEXCTraderBot: the global `state` dict of       *)
(* trading_bot.py, the TradingBot ledger operations, the snapshot file,    *)
(* the polling loop of strategy_loop and the control surface of app.py.    *)
(*                                                                         *)
(* Numbers.  The program computes in binary floating point.  The model     *)
(* computes in fixed point: money in 1/1000 USDT, coin amounts in          *)
(* 1/1000000 ETH, prices in whole USDT.  Every division rounds toward      *)
(* zero (TDiv), which like floating-point rounding is symmetric in the     *)
(* sign.  Timestamps (entry_time, time) are left out of the records.       *)
(***************************************************************************)
EXTENDS Integers, Sequences, FiniteSets, TLC

VARIABLES
    state,          \* trading_bot.state, the process-wide AccountState dict
    file,           \* bot_state.json on disk
    bot_running,    \* app.bot_running
    bot_instance,   \* app.bot_instance: "None" or "bot"
    creds,          \* BINANCE_API_KEY and BINANCE_SECRET are both set
    loops,          \* control position of each polling thread
    last,           \* the last operation on AccountState and how it ended
    calls,          \* the close_position calls in flight, one frame a caller
    issued          \* history: the highest trade number stamped so far

vars ==
    <<state, file, bot_running, bot_instance, creds, loops, last, calls,
      issued>>

----------------------------------------------------------------------------
(* Bounds of the model *)

MaxTrades == 1      \* highest trade number the model lets an open reach
MaxLoops == 2       \* polling threads alive at once

Prices == {2000, 12000}         \* last-traded prices the ticker may return
NoPrice == -1                   \* get_current_price returned None
Sides == {"long", "short"}
Directions == {"long", "short", "None"}

----------------------------------------------------------------------------
(* Configuration constants, in model units *)

START_BANK == 100000            \* 100.0 USDT
RESET_BALANCE == 100000         \* 100.0 USDT
max_leverage == 5
max_trade_size == (START_BANK * 2) \div 10     \* START_BANK * 0.2

None == [py |-> "None"]         \* Python None where a dict may stand
JsonNull == [json |-> "null"]   \* JSON null

\* a / b rounded toward zero, b > 0
TDiv(a, b) == IF a >= 0 THEN a \div b ELSE -((-a) \div b)

DefaultState ==
    [balance |-> START_BANK,
     available |-> START_BANK,
     in_position |-> FALSE,
     position |-> None,
     trades |-> <<>>,
     telegram_trade_counter |-> 0,
     skip_next_signal |-> FALSE]

----------------------------------------------------------------------------
(* Persistence.  Writes of the snapshot are taken to succeed (the except    *)
(* branch of save_state_to_file is an I/O failure of the environment).      *)

NoFile == [exists |-> FALSE]

\* json.dump(state): the keys the dict holds, None written as null
json_dump(st) ==
    [k \in DOMAIN st |->
        IF k = "position"
        THEN (IF st[k] = None THEN JsonNull ELSE st[k])
        ELSE st[k]]

\* json.load: null read back as None
json_load(obj) ==
    [k \in DOMAIN obj |->
        IF k = "position"
        THEN (IF obj[k] = JsonNull THEN None ELSE obj[k])
        ELSE obj[k]]

save_state_to_file(st) == [exists |-> TRUE, json |-> json_dump(st)]

\* a snapshot field that holds null or a string where load_state goes on to
\* format a number ('balance' in the log line of line 52)
NotANumber == -1000000000

\* the file holds a JSON object (anything else makes json.load, or the first
\* loaded_state.get of line 51, raise before state is assigned)
IsObject(f) == f.exists /\ "json" \in DOMAIN f

\* load_state at import: every key of the default dict is taken from the
\* snapshot when the snapshot has it, and keeps its default otherwise (so
\* the check of lines 55-57 always finds the counter); an exception leaves
\* the keys assigned so far
load_state(f) ==
    IF ~IsObject(f)
    THEN DefaultState
    ELSE LET loaded_state == json_load(f.json)
         IN  [key \in DOMAIN DefaultState |->
                 IF key \in DOMAIN loaded_state
                 THEN loaded_state[key]
                 ELSE DefaultState[key]]

\* load_state ends in its except branch (lines 59-61): the file is not a
\* JSON object, or the log line of line 52 cannot format the balance
load_error(f) ==
    /\ f.exists
    /\ \/ ~IsObject(f)
       \/ /\ "balance" \in DOMAIN f.json
          /\ f.json.balance = NotANumber

----------------------------------------------------------------------------
(* Position ledger *)

\* get_trade_size without the cap of lines 184-185
get_trade_size_uncapped(st, current_price) ==
    LET raw == TDiv(st.available * 1 * max_leverage, 100)
        usdt_amount == IF raw > st.available THEN st.available ELSE raw
    IN  IF usdt_amount <= 0
        THEN <<0, 0>>
        ELSE LET coin_amount == TDiv(usdt_amount * 1000, current_price)
                 fee == TDiv(usdt_amount * 4, 10000)
             IN  <<usdt_amount - fee, coin_amount>>

\* get_trade_size: <<margin after the entry fee, coin amount>>
get_trade_size(st, current_price) ==
    LET raw == TDiv(st.available * 1 * max_leverage, 100)
        capped == IF raw > max_trade_size THEN max_trade_size ELSE raw
        usdt_amount == IF capped > st.available THEN st.available ELSE capped
    IN  IF usdt_amount <= 0
        THEN <<0, 0>>
        ELSE LET coin_amount == TDiv(usdt_amount * 1000, current_price)
                 fee == TDiv(usdt_amount * 4, 10000)
             IN  <<usdt_amount - fee, coin_amount>>

HasCounter(st) == "telegram_trade_counter" \in DOMAIN st

Returned(st, ret) == [state |-> st, ret |-> ret]

\* open_position with the trade counter advanced before the in_position guard
open_position_counts_first(st, side, usdt_amount, coin_amount, price) ==
    IF ~HasCounter(st)
    THEN Returned(st, "KeyError")
    ELSE LET trade_number == st.telegram_trade_counter + 1
             counted == [st EXCEPT !.telegram_trade_counter = trade_number]
         IN  IF st.in_position
             THEN Returned(counted, "False")
             ELSE Returned([counted EXCEPT
                               !.in_position = TRUE,
                               !.position =
                                   [side |-> side,
                                    entry_price |-> price,
                                    usdt_amount |-> usdt_amount,
                                    coin_amount |-> coin_amount,
                                    leverage |-> max_leverage,
                                    trade_number |-> trade_number],
                               !.available = st.available - usdt_amount],
                           "True")

\* open_position: the AccountState it leaves and what it returns
\* ("True", "False") or raises ("KeyError")
open_position(st, side, usdt_amount, coin_amount, price) ==
    IF st.in_position
    THEN Returned(st, "False")
    ELSE IF ~HasCounter(st)
    THEN Returned(st, "KeyError")
    ELSE LET trade_number == st.telegram_trade_counter + 1
             new_position ==
                 [side |-> side,
                  entry_price |-> price,
                  usdt_amount |-> usdt_amount,
                  coin_amount |-> coin_amount,
                  leverage |-> max_leverage,
                  trade_number |-> trade_number]
         IN  Returned([st EXCEPT !.telegram_trade_counter = trade_number,
                                 !.in_position = TRUE,
                                 !.position = new_position,
                                 !.available = st.available - usdt_amount],
                      "True")

\* final_pnl with the short branch computed like the long one
final_pnl_unsigned(pos, current_price) ==
    TDiv(pos.coin_amount * (current_price - pos.entry_price) * pos.leverage,
         1000)
    - TDiv(TDiv(pos.coin_amount * current_price, 1000) * 4, 10000)

\* leveraged PnL minus the exit fee on the notional at the exit price
final_pnl(pos, current_price) ==
    LET pnl_usdt ==
            IF pos.side = "long"
            THEN TDiv(pos.coin_amount * (current_price - pos.entry_price)
                        * pos.leverage, 1000)
            ELSE TDiv(pos.coin_amount * (pos.entry_price - current_price)
                        * pos.leverage, 1000)
        fee == TDiv(TDiv(pos.coin_amount * current_price, 1000) * 4, 10000)
    IN  pnl_usdt - fee

trade_record(st, current_price, close_reason) ==
    LET pos == st.position
        pnl == final_pnl(pos, current_price)
    IN  [trade_number |-> pos.trade_number,
         side |-> pos.side,
         entry_price |-> pos.entry_price,
         exit_price |-> current_price,
         pnl_usdt |-> pnl,
         pnl_percent |-> IF pos.usdt_amount > 0
                         THEN TDiv(pnl * 100, pos.usdt_amount)
                         ELSE 0,
         reason |-> close_reason,
         balance_after |-> st.balance + pnl]

\* close_position that frees the margin but sets available from the balance
\* before the PnL
close_position_stale_available(st, current_price, close_reason) ==
    IF ~st.in_position
    THEN Returned(st, "None")
    ELSE IF current_price = NoPrice
    THEN Returned(st, "TypeError")
    ELSE LET rec == trade_record(st, current_price, close_reason)
         IN  Returned([st EXCEPT !.trades = Append(st.trades, rec),
                                 !.balance = rec.balance_after,
                                 !.available = st.balance,
                                 !.in_position = FALSE,
                                 !.position = None],
                      "trade")

\* close_position that returns None when the price fetch failed
close_position_swallows_failure(st, current_price, close_reason) ==
    IF ~st.in_position
    THEN Returned(st, "None")
    ELSE IF current_price = NoPrice
    THEN Returned(st, "None")
    ELSE LET rec == trade_record(st, current_price, close_reason)
         IN  Returned([st EXCEPT !.trades = Append(st.trades, rec),
                                 !.balance = rec.balance_after,
                                 !.available = rec.balance_after,
                                 !.in_position = FALSE,
                                 !.position = None],
                      "trade")

\* close_position: the AccountState it leaves and what it returns ("None",
\* "trade" for the trade record appended) or raises ("TypeError", on the
\* arithmetic with a price of None)
close_position(st, current_price, close_reason) ==
    IF ~st.in_position
    THEN Returned(st, "None")
    ELSE IF current_price = NoPrice
    THEN Returned(st, "TypeError")
    ELSE LET rec == trade_record(st, current_price, close_reason)
         IN  Returned([st EXCEPT !.trades = Append(st.trades, rec),
                                 !.balance = rec.balance_after,
                                 !.available = rec.balance_after,
                                 !.in_position = FALSE,
                                 !.position = None],
                      "trade")

\* api_reset_balance without line 158
reset_balance_keeps_position(st) ==
    LET cleared == [st EXCEPT !.balance = RESET_BALANCE,
                              !.available = RESET_BALANCE,
                              !.in_position = FALSE,
                              !.trades = <<>>]
    IN  [k \in DOMAIN cleared \ {"telegram_trade_counter"} |-> cleared[k]]

\* api_reset_balance (lines 155-160)
reset_balance(st) ==
    LET cleared == [st EXCEPT !.balance = RESET_BALANCE,
                              !.available = RESET_BALANCE,
                              !.in_position = FALSE,
                              !.position = None,
                              !.trades = <<>>]
    IN  [k \in DOMAIN cleared \ {"telegram_trade_counter"} |-> cleared[k]]

----------------------------------------------------------------------------
(* The environment: what the exchange can answer *)

\* _initialize_exchange returns None without credentials, and every fetch
\* on a None exchange raises inside its own try block
PriceAnswers == IF creds THEN Prices \cup {NoPrice} ELSE {NoPrice}
DirectionAnswers == IF creds THEN Directions ELSE {"None"}

\* the price fetch of line 304 can succeed / can fail
PriceFetched == PriceAnswers \ {NoPrice} # {}
PriceMissing == NoPrice \in PriceAnswers

Threads == 1..MaxLoops
NoLoops == [t \in Threads |-> "none"]
Alive == {t \in Threads : loops[t] # "none"}

Did(op, ret) == [op |-> op, ret |-> ret]

\* issued where no history of trade numbers is kept
NotObserved == -1

\* the threads that may be inside an operation on AccountState: -1 is the
\* request thread of api_reset_balance, 0 the request thread of
\* api_close_position, t > 0 is polling thread t
Callers == -1..MaxLoops

\* no call in flight: the locals of close_position do not exist
Idle == [pc |-> "idle"]

\* the frame of a call that is about to run line 239: its locals are not
\* assigned yet
Entered ==
    [pc |-> "239", pos |-> None, current_price |-> NoPrice,
     new_balance |-> 0]

NoCalls == [c \in Callers |-> Idle]

\* the model opens no trade numbered above MaxTrades
WithinBound(r) ==
    r.ret = "True" => r.state.telegram_trade_counter <= MaxTrades

\* an error that leaves the while loop instead of being caught inside it
on_tick_error_leaves(l, t) == [l EXCEPT ![t] = "none"]

\* the except block of strategy_loop: log, sleep(30), loop again
on_tick_error(l, t) == [l EXCEPT ![t] = "except"]

\* the process after the import of app.py and trading_bot.py, no snapshot
\* on disk
Boot ==
    /\ state = DefaultState
    /\ file = NoFile
    /\ bot_running = FALSE
    /\ bot_instance = "None"
    /\ creds \in BOOLEAN
    /\ loops = NoLoops
    /\ last = Did("import", "ok")
    /\ calls = NoCalls

Init == Boot /\ issued = NotObserved

----------------------------------------------------------------------------
(* One iteration of the while loop of strategy_loop, per path *)

\* the while test without should_continue()
InTick_ignores_flag(t) == loops[t] = "loop"

\* thread t is at the while test and should_continue() is true
InTick(t) == loops[t] = "loop" /\ bot_running

\* get_current_directions raises (compute_psar on fetched candles)
TickDirError(t) ==
    /\ InTick(t)
    /\ creds
    /\ loops' = on_tick_error(loops, t)
    /\ last' = Did("tick", "error")
    /\ UNCHANGED <<state, file, bot_running, bot_instance, creds,
                calls, issued>>

\* lines 304-309 with the pending suppression dropped by the skipped cycle
TickNoPrice_consumes_flag(t) ==
    /\ InTick(t)
    /\ PriceMissing
    /\ state' = [state EXCEPT !.skip_next_signal = FALSE]
    /\ last' = Did("tick", "skipped")
    /\ UNCHANGED <<file, bot_running, bot_instance, creds, loops,
                calls, issued>>

\* lines 304-309: no price, skip the cycle
TickNoPrice(t) ==
    /\ InTick(t)
    /\ PriceMissing
    /\ last' = Did("tick", "skipped")
    /\ UNCHANGED <<state, file, bot_running, bot_instance, creds, loops,
                calls, issued>>

\* line 323 with a direction of None taken for a reversal
ExitSignal_on_unknown(st, dir_5m) == dir_5m # st.position.side

\* line 323
ExitSignal(st, dir_5m) == dir_5m # "None" /\ dir_5m # st.position.side

\* lines 317-329 with these answers of the exchange: the 5m direction turned
\* against the position
ExitOn(t, dir_5m, exit_price) ==
    /\ InTick(t)
    /\ state.in_position
    /\ PriceFetched
    /\ ExitSignal(state, dir_5m)
    /\ LET r == close_position(state, exit_price, "sar_reversal_5m")
       IN  IF r.ret = "TypeError"
           THEN /\ loops' = on_tick_error(loops, t)
                /\ last' = Did("tick", "error")
                /\ UNCHANGED <<state, file>>
           ELSE /\ state' = [r.state EXCEPT !.skip_next_signal = TRUE]
                /\ file' = save_state_to_file(state')
                /\ last' = Did("tick", "closed")
                /\ UNCHANGED loops
    /\ UNCHANGED <<bot_running, bot_instance, creds, calls, issued>>

TickExit(t) ==
    \E dir_5m \in DirectionAnswers, exit_price \in PriceAnswers :
        ExitOn(t, dir_5m, exit_price)

\* lines 317-323, 364 with this answer: in position and no exit signal
HoldOn(t, dir_5m) ==
    /\ InTick(t)
    /\ state.in_position
    /\ state.position # None
    /\ PriceFetched
    /\ ~ExitSignal(state, dir_5m)
    /\ file' = save_state_to_file(state)
    /\ last' = Did("tick", "hold")
    /\ UNCHANGED <<state, bot_running, bot_instance, creds, loops,
                calls, issued>>

TickHold(t) == \E dir_5m \in DirectionAnswers : HoldOn(t, dir_5m)

\* lines 336-341 with the flag left set
TickSuppressed_keeps_flag(t) ==
    /\ InTick(t)
    /\ ~state.in_position
    /\ state.skip_next_signal
    /\ PriceFetched
    /\ file' = save_state_to_file(state)
    /\ last' = Did("tick", "suppressed")
    /\ UNCHANGED <<state, bot_running, bot_instance, creds, loops,
                calls, issued>>

\* lines 336-341: the entry after an exit is skipped once
TickSuppressed(t) ==
    /\ InTick(t)
    /\ ~state.in_position
    /\ state.skip_next_signal
    /\ PriceFetched
    /\ state' = [state EXCEPT !.skip_next_signal = FALSE]
    /\ file' = save_state_to_file(state')
    /\ last' = Did("tick", "suppressed")
    /\ UNCHANGED <<bot_running, bot_instance, creds, loops,
                calls, issued>>

\* lines 343-349 with the 15m direction required to agree as well
side_to_enter_gated_15m(dir_15m, dir_5m, dir_1m) ==
    IF dir_1m = "long" /\ dir_5m = "long" /\ dir_15m = "long" THEN "long"
    ELSE IF dir_1m = "short" /\ dir_5m = "short" /\ dir_15m = "short"
    THEN "short"
    ELSE "None"

\* lines 301-303, 343-349: the 15m direction is read and not used
side_to_enter(dir_15m, dir_5m, dir_1m) ==
    IF dir_1m = "long" /\ dir_5m = "long" THEN "long"
    ELSE IF dir_1m = "short" /\ dir_5m = "short" THEN "short"
    ELSE "None"

\* what lines 300-303 and 343-349 can decide, over every answer of the
\* three timeframes
EntryDecisions ==
    {side_to_enter(dir_15m, dir_5m, dir_1m) :
        dir_15m \in DirectionAnswers, dir_5m \in DirectionAnswers,
        dir_1m \in DirectionAnswers}

\* the history of the trade numbers stamped at line 220, where it is kept
Stamp ==
    issued' =
        IF /\ issued # NotObserved
           /\ ~state.in_position
           /\ state'.in_position
           /\ state'.position.trade_number > issued
        THEN state'.position.trade_number
        ELSE issued

\* lines 353-364 with this decision and this price
EntryOn(t, side, current_price) ==
    /\ InTick(t)
    /\ ~state.in_position
    /\ ~state.skip_next_signal
    /\ current_price # NoPrice
    /\ LET size == get_trade_size(state, current_price)
       IN  IF side # "None" /\ size[1] > 0 /\ size[2] > 0
           THEN LET r == open_position(state, side, size[1], size[2],
                                       current_price)
                IN  IF r.ret = "KeyError"
                    THEN /\ loops' = on_tick_error(loops, t)
                         /\ last' = Did("tick", "error")
                         /\ UNCHANGED <<state, file>>
                    ELSE /\ WithinBound(r)
                         /\ state' = r.state
                         /\ file' = save_state_to_file(state')
                         /\ last' = Did("tick", "opened")
                         /\ UNCHANGED loops
           ELSE /\ file' = save_state_to_file(state)
                /\ last' = Did("tick", IF side = "None" THEN "no_signal"
                                       ELSE "zero_size")
                /\ UNCHANGED <<state, loops>>
    /\ Stamp
    /\ UNCHANGED <<bot_running, bot_instance, creds, calls>>

\* lines 343-364: entry evaluation
TickEntry(t) ==
    \E side \in EntryDecisions, current_price \in PriceAnswers :
        EntryOn(t, side, current_price)

Tick(t) ==
    \/ TickDirError(t)
    \/ TickNoPrice(t)
    \/ TickExit(t)
    \/ TickHold(t)
    \/ TickSuppressed(t)
    \/ TickEntry(t)

\* while should_continue(): the flag is false, strategy_loop returns
LoopExit(t) ==
    /\ loops[t] = "loop"
    /\ ~bot_running
    /\ loops' = [loops EXCEPT ![t] = "none"]
    /\ UNCHANGED <<state, file, bot_running, bot_instance, creds, last,
                calls, issued>>

\* sleep(30) of the except block returns
Wake(t) ==
    /\ loops[t] = "except"
    /\ loops' = [loops EXCEPT ![t] = "loop"]
    /\ UNCHANGED <<state, file, bot_running, bot_instance, creds, last,
                calls, issued>>

\* bot_main_loop: bot_instance = TradingBot(...), then strategy_loop
Construct(t) ==
    /\ loops[t] = "init"
    /\ bot_instance' = "bot"
    /\ loops' = [loops EXCEPT ![t] = "loop"]
    /\ UNCHANGED <<state, file, bot_running, creds, last,
                calls, issued>>

----------------------------------------------------------------------------
(* Control surface (app.py) *)

\* api_start_bot
api_start_bot ==
    IF bot_running
    THEN \* 400, 'Bot already running'
         UNCHANGED vars
    ELSE /\ Alive # Threads
         /\ bot_running' = TRUE
         /\ LET t == CHOOSE u \in Threads \ Alive :
                        \A v \in Threads \ Alive : u <= v
            IN  loops' = [loops EXCEPT ![t] = "init"]
         /\ UNCHANGED <<state, file, bot_instance, creds, last,
                calls, issued>>

\* api_stop_bot
api_stop_bot ==
    IF ~bot_running
    THEN \* 400, 'Bot not running'
         UNCHANGED vars
    ELSE /\ bot_running' = FALSE
         /\ UNCHANGED <<state, file, bot_instance, creds, loops, last,
                calls, issued>>

\* api_close_position with this answer of the exchange to the price fetch
\* of close_position
ManualCloseOn(exit_price) ==
    /\ IF ~state.in_position
       THEN /\ last' = Did("manual_close", "rejected")
            /\ UNCHANGED <<state, file>>
       ELSE IF bot_instance = "None"
       THEN \* None.close_position: AttributeError, answered 500
            /\ last' = Did("manual_close", "error")
            /\ UNCHANGED <<state, file>>
       ELSE LET r == close_position(state, exit_price, "manual")
            IN  IF r.ret = "TypeError"
                THEN /\ last' = Did("manual_close", "error")
                     /\ UNCHANGED <<state, file>>
                ELSE /\ state' = r.state
                     /\ file' = save_state_to_file(state')
                     /\ last' = Did("manual_close", "closed")
    /\ UNCHANGED <<bot_running, bot_instance, creds, loops,
                calls, issued>>

\* api_close_position
api_close_position ==
    \E exit_price \in PriceAnswers : ManualCloseOn(exit_price)

\* api_reset_balance
api_reset_balance ==
    /\ state' = reset_balance(state)
    /\ file' = IF bot_instance # "None"
               THEN save_state_to_file(state')
               ELSE file
    /\ last' = Did("reset", "ok")
    /\ UNCHANGED <<bot_running, bot_instance, creds, loops,
                calls, issued>>

----------------------------------------------------------------------------
(* A direct call of TradingBot.open_position, sized by get_trade_size *)

OpenCall ==
    /\ bot_instance = "bot"
    /\ \E side \in Sides, price \in Prices :
        LET size == get_trade_size(state, price)
            r == open_position(state, side, size[1], size[2], price)
        IN  /\ size[1] > 0 /\ size[2] > 0
            /\ WithinBound(r)
            /\ state' = r.state
            /\ file' = IF r.ret = "True"
                       THEN save_state_to_file(state')
                       ELSE file
            /\ last' = Did("open", r.ret)
    /\ Stamp
    /\ UNCHANGED <<bot_running, bot_instance, creds, loops, calls>>

----------------------------------------------------------------------------
(* The process ends and is started again: module import runs load_state *)

Restart ==
    /\ state' = load_state(file)
    /\ bot_running' = FALSE
    /\ bot_instance' = "None"
    /\ loops' = NoLoops
    /\ last' = Did("import", "ok")
    /\ calls' = NoCalls
    /\ UNCHANGED <<file, creds, issued>>

Next ==
    \/ \E t \in Threads : Tick(t) \/ LoopExit(t) \/ Wake(t) \/ Construct(t)
    \/ api_start_bot
    \/ api_stop_bot
    \/ api_close_position
    \/ api_reset_balance
    \/ OpenCall
    \/ Restart

Spec == Init /\ [][Next]_vars

----------------------------------------------------------------------------
(* The polling threads and the endpoints of app.py over one process life;   *)
(* time.sleep(30) of the except block returns in every thread               *)

Scheduling ==
    \/ \E t \in Threads : Tick(t) \/ LoopExit(t) \/ Wake(t) \/ Construct(t)
    \/ api_start_bot
    \/ api_stop_bot
    \/ api_close_position
    \/ api_reset_balance

SleepReturns == \A t \in Threads : WF_vars(Wake(t))

LiveSpec == Init /\ [][Scheduling]_vars /\ SleepReturns

----------------------------------------------------------------------------
(* close_position statement by statement.  A caller is inside the call from *)
(* line 239 to its return; the polling thread that called it is inside its  *)
(* tick ("tick") until lines 326-329 are done.  The other paths of a tick,  *)
(* open_position and api_reset_balance stay single steps.                   *)

close_reason(c) == IF c = 0 THEN "manual" ELSE "sar_reversal_5m"

\* close_position returns ret to caller c: the request thread answers, a
\* polling thread goes on to line 326
Returns(c, ret) ==
    IF c = 0
    THEN /\ calls' = [calls EXCEPT ![c] = Idle]
         /\ last' = Did("manual_close", ret)
         /\ UNCHANGED loops
    ELSE /\ calls' = [calls EXCEPT ![c] = [Idle EXCEPT !.pc = "326"]]
         /\ UNCHANGED <<loops, last>>

\* close_position raises in caller c: api_close_position answers 500, a
\* polling thread lands in the except block of strategy_loop
Raises(c) ==
    /\ calls' = [calls EXCEPT ![c] = Idle]
    /\ IF c = 0
       THEN /\ last' = Did("manual_close", "error")
            /\ UNCHANGED loops
       ELSE /\ loops' = on_tick_error(loops, c)
            /\ last' = Did("tick", "error")

\* caller c moves to the statement at line pc
Goto(c, pc) ==
    /\ calls' = [calls EXCEPT ![c].pc = pc]
    /\ UNCHANGED <<loops, last>>

\* lines 239-240
close_239(c) ==
    /\ calls[c].pc = "239"
    /\ IF ~state.in_position
       THEN Returns(c, "None")
       ELSE Goto(c, "242")
    /\ UNCHANGED <<state, file, bot_running, bot_instance, creds, issued>>

\* lines 242-247: pos = state['position'] and the reads of its fields
close_242(c) ==
    /\ calls[c].pc = "242"
    /\ IF state.position = None
       THEN Raises(c)
       ELSE /\ calls' = [calls EXCEPT ![c].pc = "249",
                                      ![c].pos = state.position]
            /\ UNCHANGED <<loops, last>>
    /\ UNCHANGED <<state, file, bot_running, bot_instance, creds, issued>>

\* line 249
close_249(c) ==
    /\ calls[c].pc = "249"
    /\ \E current_price \in PriceAnswers :
        calls' = [calls EXCEPT ![c].pc = "252",
                               ![c].current_price = current_price]
    /\ UNCHANGED <<state, file, bot_running, bot_instance, creds, loops,
                   last, issued>>

\* lines 252-275: the PnL, and new_balance from the balance as it is now
close_252(c) ==
    /\ calls[c].pc = "252"
    /\ IF calls[c].current_price = NoPrice
       THEN Raises(c)
       ELSE /\ calls' = [calls EXCEPT
                            ![c].pc = "277",
                            ![c].new_balance =
                                state.balance
                                + final_pnl(calls[c].pos,
                                            calls[c].current_price)]
            /\ UNCHANGED <<loops, last>>
    /\ UNCHANGED <<state, file, bot_running, bot_instance, creds, issued>>

\* the trade record built at lines 264-275 from the locals of caller c
record_of(c) ==
    LET f == calls[c]
        pnl == final_pnl(f.pos, f.current_price)
    IN  trade_record([position |-> f.pos, balance |-> f.new_balance - pnl],
                     f.current_price, close_reason(c))

\* state with one key assigned by caller c, who moves on to line pc
Assigns(c, st, pc) ==
    /\ state' = st
    /\ Goto(c, pc)
    /\ UNCHANGED <<file, bot_running, bot_instance, creds, issued>>

\* line 277
close_277(c) ==
    /\ calls[c].pc = "277"
    /\ Assigns(c, [state EXCEPT !.trades = Append(@, record_of(c))], "280")

\* line 280
close_280(c) ==
    /\ calls[c].pc = "280"
    /\ Assigns(c, [state EXCEPT !.balance = calls[c].new_balance], "281")

\* line 281
close_281(c) ==
    /\ calls[c].pc = "281"
    /\ Assigns(c, [state EXCEPT !.available = calls[c].new_balance], "282")

\* line 282
close_282(c) ==
    /\ calls[c].pc = "282"
    /\ Assigns(c, [state EXCEPT !.in_position = FALSE], "283")

\* line 283
close_283(c) ==
    /\ calls[c].pc = "283"
    /\ Assigns(c, [state EXCEPT !.position = None], "290")

\* lines 290-291
close_290(c) ==
    /\ calls[c].pc = "290"
    /\ file' = save_state_to_file(state)
    /\ Returns(c, "closed")
    /\ UNCHANGED <<state, bot_running, bot_instance, creds, issued>>

Close(c) ==
    \/ close_239(c)
    \/ close_242(c)
    \/ close_249(c)
    \/ close_252(c)
    \/ close_277(c)
    \/ close_280(c)
    \/ close_281(c)
    \/ close_282(c)
    \/ close_283(c)
    \/ close_290(c)

\* lines 317-325: the tick of thread t finds a position open; reading its
\* side raises when position is None, and a 5m direction that turned
\* against the side calls close_position
TickExitBegin(t) ==
    /\ InTick(t)
    /\ state.in_position
    /\ PriceFetched
    /\ IF state.position = None
       THEN /\ loops' = on_tick_error(loops, t)
            /\ last' = Did("tick", "error")
            /\ UNCHANGED calls
       ELSE /\ \E dir_5m \in DirectionAnswers : ExitSignal(state, dir_5m)
            /\ calls' = [calls EXCEPT ![t] = Entered]
            /\ loops' = [loops EXCEPT ![t] = "tick"]
            /\ UNCHANGED last
    /\ UNCHANGED <<state, file, bot_running, bot_instance, creds, issued>>

\* lines 326-329
after_326(t) ==
    /\ calls[t].pc = "326"
    /\ state' = [state EXCEPT !.skip_next_signal = TRUE]
    /\ file' = save_state_to_file(state')
    /\ calls' = [calls EXCEPT ![t] = Idle]
    /\ loops' = [loops EXCEPT ![t] = "loop"]
    /\ last' = Did("tick", "closed")
    /\ UNCHANGED <<bot_running, bot_instance, creds, issued>>

\* api_close_position, lines 142-146: the request passes the check of
\* in_position and calls close_position
ManualBegin ==
    /\ calls[0].pc = "idle"
    /\ state.in_position
    /\ bot_instance = "bot"
    /\ calls' = [calls EXCEPT ![0] = Entered]
    /\ UNCHANGED <<state, file, bot_running, bot_instance, creds, loops,
                   last, issued>>

StepTick(t) ==
    \/ TickDirError(t)
    \/ TickNoPrice(t)
    \/ TickExitBegin(t)
    \/ TickHold(t)
    \/ TickSuppressed(t)
    \/ TickEntry(t)

\* a running engine and manual closes: one polling thread and the request
\* thread of api_close_position
RaceNext ==
    \/ \E t \in Threads :
        StepTick(t) \/ after_326(t) \/ Wake(t) \/ Construct(t)
    \/ \E c \in Callers : Close(c)
    \/ api_start_bot
    \/ ManualBegin
    \/ api_reset_balance

RaceSpec == Init /\ [][RaceNext]_vars

\* an engine after its start was accepted, and no start request after that:
\* the one polling thread and stop requests
StopInit ==
    /\ state = DefaultState
    /\ file = NoFile
    /\ bot_running = TRUE
    /\ bot_instance = "None"
    /\ creds \in BOOLEAN
    /\ loops = [NoLoops EXCEPT ![1] = "init"]
    /\ last = Did("import", "ok")
    /\ calls = NoCalls
    /\ issued = NotObserved

StopNext ==
    \/ \E t \in Threads :
        \/ StepTick(t)
        \/ after_326(t)
        \/ Close(t)
        \/ LoopExit(t)
        \/ Wake(t)
        \/ Construct(t)
    \/ api_stop_bot

\* the calls a polling thread makes return: the thread takes its next step
\* when it is not at a while test that finds the run flag true
ThreadAdvances ==
    \E t \in Threads :
        \/ after_326(t)
        \/ Close(t)
        \/ LoopExit(t)
        \/ Wake(t)
        \/ Construct(t)

StopSpec == StopInit /\ [][StopNext]_vars /\ WF_vars(ThreadAdvances)

----------------------------------------------------------------------------
(* open_position and api_reset_balance statement by statement.  A polling   *)
(* thread that calls open_position keeps its arguments and trade_number in  *)
(* its frame and stays inside its tick until line 364 is done; the request  *)
(* thread of api_reset_balance has a frame with no locals.                  *)

\* lines 332-357: the tick of thread t finds no position and no skip flag,
\* the 1m and 5m directions agree and the trade size is positive: it calls
\* open_position
TickEntryBegin(t) ==
    /\ InTick(t)
    /\ ~state.in_position
    /\ ~state.skip_next_signal
    /\ HasCounter(state) => state.telegram_trade_counter < MaxTrades
    /\ \E side \in EntryDecisions \ {"None"}, current_price \in Prices :
        LET size == get_trade_size(state, current_price)
        IN  /\ size[1] > 0 /\ size[2] > 0
            /\ current_price \in PriceAnswers
            /\ calls' = [calls EXCEPT ![t] =
                            [pc |-> "205", side |-> side,
                             usdt_amount |-> size[1],
                             coin_amount |-> size[2],
                             price |-> current_price,
                             trade_number |-> 0]]
    /\ loops' = [loops EXCEPT ![t] = "tick"]
    /\ UNCHANGED <<state, file, bot_running, bot_instance, creds, last,
                   issued>>

\* lines 343-364 when the tick calls no open_position: no agreeing signal
\* or no positive trade size
TickNoEntry(t) ==
    \E side \in EntryDecisions, current_price \in PriceAnswers :
        /\ current_price # NoPrice
        /\ \/ side = "None"
           \/ get_trade_size(state, current_price)[1] <= 0
           \/ get_trade_size(state, current_price)[2] <= 0
        /\ EntryOn(t, side, current_price)

\* open_position is over in thread t, which goes on to line 364
Opened(t, ret) ==
    /\ calls' = [calls EXCEPT ![t] = [pc |-> "364", ret |-> ret]]
    /\ UNCHANGED <<loops, last>>

\* lines 205-207
open_205(t) ==
    /\ calls[t].pc = "205"
    /\ IF state.in_position
       THEN Opened(t, "False")
       ELSE Goto(t, "209")
    /\ UNCHANGED <<state, file, bot_running, bot_instance, creds, issued>>

\* line 209
open_209(t) ==
    /\ calls[t].pc = "209"
    /\ IF ~HasCounter(state)
       THEN /\ Raises(t)
            /\ UNCHANGED <<state, file, bot_running, bot_instance, creds,
                           issued>>
       ELSE Assigns(t, [state EXCEPT !.telegram_trade_counter = @ + 1],
                    "210")

\* lines 210-220: trade_number and new_position
open_210(t) ==
    /\ calls[t].pc = "210"
    /\ IF ~HasCounter(state)
       THEN Raises(t)
       ELSE /\ calls' = [calls EXCEPT
                            ![t].pc = "222",
                            ![t].trade_number =
                                state.telegram_trade_counter]
            /\ UNCHANGED <<loops, last>>
    /\ UNCHANGED <<state, file, bot_running, bot_instance, creds, issued>>

new_position(t) ==
    [side |-> calls[t].side,
     entry_price |-> calls[t].price,
     usdt_amount |-> calls[t].usdt_amount,
     coin_amount |-> calls[t].coin_amount,
     leverage |-> max_leverage,
     trade_number |-> calls[t].trade_number]

\* line 222
open_222(t) ==
    /\ calls[t].pc = "222"
    /\ Assigns(t, [state EXCEPT !.in_position = TRUE], "223")

\* line 223
open_223(t) ==
    /\ calls[t].pc = "223"
    /\ Assigns(t, [state EXCEPT !.position = new_position(t)], "224")

\* line 224
open_224(t) ==
    /\ calls[t].pc = "224"
    /\ Assigns(t, [state EXCEPT !.available = @ - calls[t].usdt_amount],
               "232")

\* lines 232-233
open_232(t) ==
    /\ calls[t].pc = "232"
    /\ file' = save_state_to_file(state)
    /\ Opened(t, "True")
    /\ UNCHANGED <<state, bot_running, bot_instance, creds, issued>>

\* line 364 after the call of open_position
tick_364(t) ==
    /\ calls[t].pc = "364"
    /\ file' = save_state_to_file(state)
    /\ calls' = [calls EXCEPT ![t] = Idle]
    /\ loops' = [loops EXCEPT ![t] = "loop"]
    /\ last' = Did("tick", IF calls[t].ret = "True" THEN "opened"
                           ELSE "not_opened")
    /\ UNCHANGED <<state, bot_running, bot_instance, creds, issued>>

Open(t) ==
    \/ open_205(t)
    \/ open_209(t)
    \/ open_210(t)
    \/ open_222(t)
    \/ open_223(t)
    \/ open_224(t)
    \/ open_232(t)
    \/ tick_364(t)

\* api_reset_balance is requested: its thread is about to run line 155
ResetBegin ==
    /\ calls[-1].pc = "idle"
    /\ calls' = [calls EXCEPT ![-1] = [pc |-> "155"]]
    /\ UNCHANGED <<state, file, bot_running, bot_instance, creds, loops,
                   last, issued>>

\* line 155
reset_155 ==
    /\ calls[-1].pc = "155"
    /\ Assigns(-1, [state EXCEPT !.balance = RESET_BALANCE], "156")

\* line 156
reset_156 ==
    /\ calls[-1].pc = "156"
    /\ Assigns(-1, [state EXCEPT !.available = RESET_BALANCE], "157")

\* line 157
reset_157 ==
    /\ calls[-1].pc = "157"
    /\ Assigns(-1, [state EXCEPT !.in_position = FALSE], "158")

\* line 158
reset_158 ==
    /\ calls[-1].pc = "158"
    /\ Assigns(-1, [state EXCEPT !.position = None], "159")

\* line 159
reset_159 ==
    /\ calls[-1].pc = "159"
    /\ Assigns(-1, [state EXCEPT !.trades = <<>>], "160")

\* line 160
reset_160 ==
    /\ calls[-1].pc = "160"
    /\ Assigns(-1,
               [k \in DOMAIN state \ {"telegram_trade_counter"} |-> state[k]],
               "162")

\* lines 162-166
reset_162 ==
    /\ calls[-1].pc = "162"
    /\ file' = IF bot_instance # "None"
               THEN save_state_to_file(state)
               ELSE file
    /\ calls' = [calls EXCEPT ![-1] = Idle]
    /\ last' = Did("reset", "ok")
    /\ UNCHANGED <<state, bot_running, bot_instance, creds, loops, issued>>

Reset ==
    \/ reset_155
    \/ reset_156
    \/ reset_157
    \/ reset_158
    \/ reset_159
    \/ reset_160
    \/ reset_162

\* one iteration of the while loop whose calls of open_position and
\* close_position run statement by statement
FineTick(t) ==
    \/ TickDirError(t)
    \/ TickNoPrice(t)
    \/ TickExitBegin(t)
    \/ TickHold(t)
    \/ TickSuppressed(t)
    \/ TickNoEntry(t)
    \/ TickEntryBegin(t)

\* an engine that is in its polling loop, manual closes and manual resets:
\* the polling thread and the two request threads
FineInit ==
    /\ state = DefaultState
    /\ file = NoFile
    /\ bot_running = TRUE
    /\ bot_instance = "bot"
    /\ creds = TRUE
    /\ loops = [NoLoops EXCEPT ![1] = "loop"]
    /\ last = Did("import", "ok")
    /\ calls = NoCalls
    /\ issued = NotObserved

FineNext ==
    \/ \E t \in Threads :
        FineTick(t) \/ Open(t) \/ Close(t) \/ after_326(t) \/ Wake(t)
    \/ ResetBegin
    \/ Reset

FineSpec == FineInit /\ [][FineNext]_vars

----------------------------------------------------------------------------
(* The import of trading_bot.py over the snapshots it may find on disk      *)

\* AccountState with a position open, and after its close by the scheduler
OpenedState ==
    LET size == get_trade_size(DefaultState, 2000)
    IN  open_position(DefaultState, "long", size[1], size[2], 2000).state

ClosedState ==
    [close_position(OpenedState, 12000, "sar_reversal_5m").state
        EXCEPT !.skip_next_signal = TRUE]

\* no file; a file cut short by a crash or holding a JSON list; a snapshot
\* of either state with any of its fields missing, and with a balance that
\* is not a number
Snapshots ==
    {NoFile}
    \cup {[exists |-> TRUE, text |-> t] : t \in {"truncated", "list"}}
    \cup {[exists |-> TRUE,
           json |-> [k \in K |-> IF k = "balance" /\ damaged
                                 THEN NotANumber
                                 ELSE json_dump(st)[k]]] :
            st \in {OpenedState, ClosedState},
            K \in SUBSET DOMAIN DefaultState,
            damaged \in BOOLEAN}

LoadInit ==
    /\ state = DefaultState
    /\ file \in Snapshots
    /\ bot_running = FALSE
    /\ bot_instance = "None"
    /\ creds = TRUE
    /\ loops = NoLoops
    /\ last = Did("import", "pending")
    /\ calls = NoCalls
    /\ issued = NotObserved

LoadNext == Restart

LoadSpec == LoadInit /\ [][LoadNext]_vars

----------------------------------------------------------------------------
(* An engine that is started and never asked to stop: one polling thread    *)
(* at a time, the account endpoints of app.py and process restarts          *)

RunNext ==
    \/ \E t \in Threads : Tick(t) \/ Wake(t) \/ Construct(t)
    \/ api_start_bot
    \/ api_close_position
    \/ api_reset_balance
    \/ Restart

RunSpec == Init /\ [][RunNext]_vars

\* the same engine with the history of trade numbers kept
NumberInit == Boot /\ issued = 0

NumberSpec == NumberInit /\ [][RunNext]_vars

\* an engine that is in its polling loop and stays running: the one
\* polling thread and the account endpoints of app.py
ResetInit ==
    /\ state = DefaultState
    /\ file = NoFile
    /\ bot_running = TRUE
    /\ bot_instance = "bot"
    /\ creds \in BOOLEAN
    /\ loops = [NoLoops EXCEPT ![1] = "loop"]
    /\ last = Did("import", "ok")
    /\ calls = NoCalls
    /\ issued = NotObserved

ResetNext ==
    \/ \E t \in Threads : Tick(t) \/ Wake(t)
    \/ api_close_position
    \/ api_reset_balance

ResetSpec == ResetInit /\ [][ResetNext]_vars

----------------------------------------------------------------------------
(* The scheduler over a range of account balances: one polling thread of a  *)
(* running engine, started on an AccountState loaded with the balance       *)

\* balances from a lost account to one above the point where 5 % of
\* the available margin passes max_trade_size
Availables ==
    {-50000, -1, 0, 1, 20, 1000, 100000, 399980, 400000, 400020, 1000000}

SizeInit ==
    /\ \E a \in Availables :
        state = [DefaultState EXCEPT !.balance = a, !.available = a]
    /\ file = save_state_to_file(state)
    /\ bot_running = TRUE
    /\ bot_instance = "bot"
    /\ creds = TRUE
    /\ loops = [NoLoops EXCEPT ![1] = "loop"]
    /\ last = Did("import", "ok")
    /\ calls = NoCalls
    /\ issued = NotObserved

SizeNext == \E t \in Threads : Tick(t) \/ Wake(t)

SizeSpec == SizeInit /\ [][SizeNext]_vars

----------------------------------------------------------------------------
(* Claims *)

\* C1: after any sequence of complete operations, in_position is true if
\* and only if position is not None.
C1_PositionIffFlag == state.in_position <=> state.position # None

C1_Witness ==
    /\ last = Did("manual_close", "closed")
    /\ ~state.in_position
    /\ state.position = None
    /\ Len(state.trades) = 1

\* C2: when not in position, available <= balance; when in position,
\* available = balance - the margin recorded in the position.
C2_AvailableVersusBalance ==
    IF state.in_position
    THEN state.available = state.balance - state.position.usdt_amount
    ELSE state.available <= state.balance

C2_Witness ==
    /\ state.in_position
    /\ state.position.usdt_amount = 4998
    /\ state.balance = START_BANK
    /\ state.available = START_BANK - 4998

\* C3: open_position called while a position is open returns False and
\* leaves every field of AccountState as it was.
C3_OpenWhileOpenIsNoOp ==
    [][(state.in_position /\ OpenCall)
          => (last' = Did("open", "False") /\ state' = state)]_vars

C3_Witness ==
    /\ last = Did("open", "False")
    /\ state.in_position
    /\ state.telegram_trade_counter = 1

\* the net PnL as the claim writes it: sign * (p - entry) * size * leverage
\* minus the exit fee rate times size * p
ClaimedNet(pos, p) ==
    LET sign == IF pos.side = "long" THEN 1 ELSE -1
    IN  TDiv(sign * (p - pos.entry_price) * pos.coin_amount * pos.leverage,
             1000)
        - TDiv(TDiv(pos.coin_amount * p, 1000) * 4, 10000)

\* a step that closes the open position
Closes ==
    /\ state.in_position
    /\ ~state'.in_position
    /\ Len(state'.trades) = Len(state.trades) + 1

\* C4: a close at exit price p sets balance to the old balance plus
\* net = sign * (p - entry_price) * size * leverage - fee rate * size * p,
\* sets available to the new balance, clears the position, and the trade
\* record carries net as its PnL and the new balance as its balance.
C4_CloseAccounting ==
    [][Closes =>
        LET rec == state'.trades[Len(state'.trades)]
            net == ClaimedNet(state.position, rec.exit_price)
        IN  /\ state'.balance = state.balance + net
            /\ state'.available = state'.balance
            /\ state'.position = None
            /\ rec.pnl_usdt = net
            /\ rec.balance_after = state'.balance
            /\ state'.trades = Append(state.trades, rec)]_vars

C4_Witness ==
    /\ Len(state.trades) = 1
    /\ state.trades[1].side = "short"
    /\ state.trades[1].entry_price = 12000
    /\ state.trades[1].exit_price = 2000
    /\ state.trades[1].pnl_usdt > 0
    /\ state.balance = START_BANK + state.trades[1].pnl_usdt
    /\ ~state.in_position

\* C5: after any close that finds an open position, the scheduler's or a
\* manual one, skip_next_signal is true.
C5_SkipAfterAnyClose ==
    last \in {Did("tick", "closed"), Did("manual_close", "closed")}
        => state.skip_next_signal

\* C6: a manual reset yields balance = available = the reset value, no
\* position, an empty trade history and skip_next_signal false.
C6_ResetClearsAll ==
    last = Did("reset", "ok") =>
        /\ state.balance = RESET_BALANCE
        /\ state.available = RESET_BALANCE
        /\ ~state.in_position
        /\ state.position = None
        /\ state.trades = <<>>
        /\ ~state.skip_next_signal

\* C7: a state that was saved and is loaded at the next start comes back
\* equal in every field.
C7_SaveLoadRoundTrip ==
    [][(Restart /\ file = save_state_to_file(state)) => state' = state]_vars

\* C8: once open, close, the hysteresis clear or a manual reset has
\* completed, the snapshot on disk equals the AccountState in memory,
\* whether or not the scheduler was ever started.
C8_SnapshotFollowsState ==
    last \in {Did("tick", "opened"), Did("open", "True"),
              Did("tick", "closed"), Did("manual_close", "closed"),
              Did("tick", "suppressed"), Did("reset", "ok")}
        => file = save_state_to_file(state)

\* C9: without exchange credentials the construction of the engine fails,
\* no tick is executed and the scheduler does not stay running.
C9_NoEngineWithoutCredentials ==
    ~creds =>
        /\ bot_instance = "None"
        /\ last.op # "tick"
        /\ \A t \in Threads : loops[t] \in {"none", "init"}

\* C10: an error inside a tick never ends the polling loop: a thread leaves
\* the loop only at the while test with the run flag false, a thread at the
\* while test with the flag true can run a tick, and a thread whose tick
\* failed is back at the while test eventually.
C10_LoopSurvivesErrors ==
    /\ [][\A t \in Threads :
            (loops[t] # "none" /\ loops'[t] = "none")
                => (loops[t] = "loop" /\ ~bot_running)]_vars
    /\ [](\A t \in Threads : InTick(t) => ENABLED Tick(t))
    /\ \A t \in Threads : (loops[t] = "except") ~> (loops[t] = "loop")

C10_Witness ==
    \E t \in Threads :
        /\ loops[t] = "except"
        /\ last = Did("tick", "error")
        /\ bot_running
        /\ ~HasCounter(state)

\* the entry condition as the claim words it: both directions are defined
\* and they are equal
Agree(dir_1m, dir_5m) == dir_1m \in Sides /\ dir_5m = dir_1m

\* C13: in a tick with price available, no open position and
\* skip_next_signal false, the scheduler goes for an open (sizes the trade
\* and, with a positive size, calls open_position) if and only if the 1m and
\* 5m directions are both defined and equal; a position it opens has that
\* common side; the 15m direction does not change the outcome.
C13_EntryRule ==
    [][\A t \in Threads, current_price \in Prices :
        \A dir_15m \in DirectionAnswers, dir_5m \in DirectionAnswers,
           dir_1m \in DirectionAnswers :
            EntryOn(t, side_to_enter(dir_15m, dir_5m, dir_1m), current_price)
            => /\ last'.ret \in {"opened", "error", "zero_size"}
                    <=> Agree(dir_1m, dir_5m)
               /\ state'.in_position
                    => /\ state'.position.side = dir_1m
                       /\ state'.position.side = dir_5m]_vars

C13_Witness ==
    /\ last = Did("tick", "opened")
    /\ state.in_position
    /\ state.position.side = "short"
    /\ state.position.entry_price = 2000

\* the exit condition as the claim words it: the 5m direction is defined
\* and differs from the side of the position
Reversed(dir_5m, side) == dir_5m \in Sides /\ dir_5m # side

\* C14: in a tick with a position open and the price available (to the
\* tick and to the close it calls), the scheduler closes the position if
\* and only if the 5m direction is defined and differs from the position's
\* side; otherwise the position stays open and AccountState is unchanged.
\* No tick both closes and opens a position.
C14_ExitRule ==
    [][\A t \in Threads :
        /\ \A dir_5m \in DirectionAnswers, exit_price \in Prices :
            (ExitOn(t, dir_5m, exit_price) \/ HoldOn(t, dir_5m))
            => IF Reversed(dir_5m, state.position.side)
               THEN /\ Closes
                    /\ state'.position = None
                    /\ state'.trades[Len(state'.trades)].reason
                           = "sar_reversal_5m"
               ELSE /\ state' = state
                    /\ state'.in_position
        /\ Tick(t)
            => ~(Len(state'.trades) # Len(state.trades)
                    /\ state'.in_position)]_vars

C14_Witness ==
    /\ last = Did("tick", "closed")
    /\ ~state.in_position
    /\ Len(state.trades) = 1
    /\ state.trades[1].reason = "sar_reversal_5m"
    /\ state.trades[1].side = "long"

\* C15: a tick that finds skip_next_signal set (price available, no
\* position) opens nothing and clears the flag, so that the next tick meets
\* the entry evaluation; a scheduler close sets the flag, only such a
\* suppressed tick takes it back, and the scheduler opens only with the
\* flag false: between a scheduler close and the next scheduler open
\* exactly one entry evaluation was suppressed.
C15_OneShotHysteresis ==
    [][/\ \A t \in Threads :
            TickSuppressed(t)
            => /\ ~state'.in_position
               /\ ~state'.skip_next_signal
               /\ state' = [state EXCEPT !.skip_next_signal = FALSE]
       /\ ((\E t \in Threads : TickExit(t)) /\ Closes)
            => state'.skip_next_signal
       /\ (state.skip_next_signal /\ ~state'.skip_next_signal)
            => \E t \in Threads : TickSuppressed(t)
       /\ ((\E t \in Threads : TickEntry(t)) /\ state'.in_position)
            => ~state.skip_next_signal]_vars

C15_Witness ==
    /\ last = Did("tick", "suppressed")
    /\ ~state.skip_next_signal
    /\ ~state.in_position
    /\ Len(state.trades) = 1
    /\ state.trades[1].reason = "sar_reversal_5m"

\* C16: a tick whose last-price fetch fails changes no field of
\* AccountState; a pending suppression is still pending after it.
C16_SkippedTickFrame ==
    [][\A t \in Threads : TickNoPrice(t) => state' = state]_vars

C16_Witness ==
    /\ last = Did("tick", "skipped")
    /\ state.skip_next_signal
    /\ ~state.in_position
    /\ Len(state.trades) = 1

\* C17: an open by the scheduler commits a margin m with
\* 0 < m <= min(available, max_trade_size), so available stays >= 0; when
\* the computed margin is <= 0 (as with available <= 0) the tick opens
\* nothing and leaves AccountState, the trade counter included, unchanged.
C17_TradeSizeBounds ==
    [][\A t \in Threads, side \in Sides \cup {"None"},
          current_price \in Prices :
        EntryOn(t, side, current_price)
        => /\ state'.in_position
                => LET m == state'.position.usdt_amount
                   IN  /\ 0 < m
                       /\ m <= state.available
                       /\ m <= max_trade_size
                       /\ state'.available = state.available - m
                       /\ state'.available >= 0
           /\ get_trade_size(state, current_price)[1] <= 0
                => state' = state
           /\ state.available <= 0 => state' = state]_vars

C17_Witness ==
    /\ last = Did("tick", "opened")
    /\ state.in_position
    /\ state.position.usdt_amount = max_trade_size - 8
    /\ state.available = 1000000 - state.position.usdt_amount

\* C12: load on a corrupt or unreadable snapshot leaves AccountState at its
\* initial default values, no field overwritten; load on a snapshot with
\* missing fields sets each missing field to its default.
C12_LoadCorruptOrPartial ==
    [][Restart =>
        /\ load_error(file) => state' = DefaultState
        /\ IsObject(file)
            => \A key \in DOMAIN DefaultState \ DOMAIN file.json :
                   state'[key] = DefaultState[key]]_vars

\* a step in which open_position succeeds
SuccessfulOpen ==
    /\ ~state.in_position
    /\ state'.in_position
    /\ last' \in {Did("tick", "opened"), Did("open", "True")}

\* C18: every successful open increments the trade counter by exactly one
\* and stamps the new position with a number greater than that of every
\* position opened earlier, over opens, closes, manual resets and restarts;
\* each trade record carries the number of the position it closed.
C18_TradeNumbersIncrease ==
    [][/\ SuccessfulOpen
            => /\ state'.telegram_trade_counter
                      = state.telegram_trade_counter + 1
               /\ state'.position.trade_number
                      = state'.telegram_trade_counter
               /\ state'.position.trade_number > issued
       /\ (Closes /\ last'.ret = "closed")
            => state'.trades[Len(state'.trades)].trade_number
                   = state.position.trade_number]_vars

\* C20: at most one polling loop is executing at any time, whatever the
\* order of start and stop requests and loop steps.
C20_AtMostOneLoop ==
    Cardinality({t \in Threads : loops[t] \in {"loop", "except"}}) <= 1

\* C11: a stop request only sets the run flag and touches no thread; a
\* thread begins a tick only with the flag true; a thread inside a tick can
\* take its next statement whatever the flag and leaves the tick only at
\* its end; and with no start request after the stop every polling thread
\* has left its loop eventually.
C11_CooperativeStop ==
    /\ [][(api_stop_bot /\ bot_running)
            => (~bot_running' /\ UNCHANGED <<state, file, loops, calls>>)]_vars
    /\ [][\A t \in Threads :
            /\ StepTick(t) => bot_running
            /\ (loops[t] = "tick" /\ loops'[t] # "tick")
                => loops'[t] \in {"loop", "except"}]_vars
    /\ [](\A t \in Threads :
            loops[t] = "tick" => ENABLED (Close(t) \/ after_326(t)))
    /\ (~bot_running) ~> (\A t \in Threads : loops[t] = "none")

C11_Witness ==
    /\ ~bot_running
    /\ loops[1] = "tick"
    /\ calls[1].pc = "277"
    /\ state.in_position

\* C19: each opened position is closed at most once, also when a manual
\* close interleaves with the scheduler's close of the same position: the
\* trade history holds one record for a trade number.
C19_ClosedAtMostOnce ==
    \A i, j \in 1..Len(state.trades) :
        state.trades[i].trade_number = state.trades[j].trade_number
            => i = j

\* C22: a manual reset never disables trading: in the tick that follows a
\* reset issued while the scheduler is running, with a price available,
\* skip_next_signal false, the 1m and 5m directions defined and equal and
\* a positive trade size, open succeeds and in_position becomes true; the
\* tick does not end in an error.
C22_ResetKeepsTrading ==
    [][\A t \in Threads, side \in Sides, current_price \in Prices :
        (/\ last = Did("reset", "ok")
         /\ get_trade_size(state, current_price)[1] > 0
         /\ get_trade_size(state, current_price)[2] > 0
         /\ EntryOn(t, side, current_price))
        => (state'.in_position /\ last' = Did("tick", "opened"))]_vars

\* C23: when the fetch of the last price fails during a close, started by
\* the scheduler or by a manual request, the close fails and changes no
\* field of AccountState: the position stays open, no TradeRecord is
\* appended, balance and available are unchanged and skip_next_signal is
\* not set; the tick ends in the except block, the request is answered
\* with an error.
C23_FailedFetchLeavesState ==
    [][/\ \A t \in Threads, dir_5m \in DirectionAnswers :
            ExitOn(t, dir_5m, NoPrice)
                => /\ state' = state
                   /\ state'.in_position
                   /\ loops'[t] = "except"
                   /\ last' = Did("tick", "error")
       /\ (state.in_position /\ bot_instance = "bot"
                /\ ManualCloseOn(NoPrice))
                => /\ state' = state
                   /\ state'.in_position
                   /\ last' = Did("manual_close", "error")]_vars

\* a manual close has failed on the price and the position is still open
C23_Witness ==
    /\ last = Did("manual_close", "error")
    /\ bot_instance = "bot"
    /\ state.in_position
    /\ state.position # None
    /\ state.trades = <<>>
    /\ ~state.skip_next_signal
    /\ state.available = state.balance - state.position.usdt_amount

\* C21: when a manual reset or a manual close interleaves statement by
\* statement with a tick that is executing open_position or
\* close_position, then once every operation in flight has finished,
\* in_position holds exactly when position is not None, and while in
\* position available is the balance minus the committed margin.
C21_ConsistentWhenQuiet ==
    (calls = NoCalls)
        => /\ state.in_position <=> state.position # None
           /\ (state.in_position /\ state.position # None)
                => state.available
                    = state.balance - state.position.usdt_amount

====
